---- MODULE Spec2Model ----
(***************************************************************************)
(* rest_framework/response.py: the Response class (deferred rendering of   *)
(* unrendered data, cache snapshot) and HttpResponseMessage (status code   *)
(* to default message lookup).                                             *)
(*                                                                         *)
(* One Response object is modelled by its attribute dictionary `response`. *)
(* Python values that can be text, bytes or None are records [t, v] with   *)
(* t the Python type name and v a sequence of code points (str) or of byte *)
(* values (bytes).  Attributes that hold plain strings (content types,     *)
(* charsets, header values) are TLA+ strings, with None a reserved value.  *)
(***************************************************************************)
EXTENDS Integers, Sequences, FiniteSets, TLC

VARIABLES
    pc,         \* "start": no Response yet; "live": constructed; "failed": __init__ raised
    response,   \* the Response's attributes (its __dict__, headers included)
    init,       \* arguments and outcome of the most recent step if it was __init__
    reads,      \* results of the reads of rendered_content since the last attachment
    snapshot,   \* result of the most recent step if it was __getstate__
    lookup      \* result of the most recent HttpResponseMessage lookup

vars == <<pc, response, init, reads, snapshot, lookup>>

---------------------------------------------------------------------------
(* Bounds of the model *)

\* reads of rendered_content logged between two attachments
MaxReads == 3

\* closable objects a response holds
MaxClosable == 2

\* how far below 200 and above 599 the integer status codes looked up reach
CodeMargin == 5

---------------------------------------------------------------------------
(* Python values *)

\* None, where the attribute is otherwise a plain string
None == "<None>"

PyNone == [t |-> "NoneType", v |-> <<>>]
Str(s) == [t |-> "str", v |-> s]
Bytes(s) == [t |-> "bytes", v |-> s]

\* Truthy that takes only None for false (`if ret is None`)
TruthyNotNone(x) == x.t /= "NoneType"

\* bool(x) for None, str and bytes
Truthy(x) == x.t /= "NoneType" /\ Len(x.v) > 0

\* bool(s) for an attribute that is None or a plain string
TruthyStr(s) == s /= None /\ s /= ""

\* d[k] = v on a mapping
Put(d, k, v) == [x \in (DOMAIN d) \cup {k} |-> IF x = k THEN v ELSE d[x]]

\* d.pop(k, None) on a mapping
Del(d, k) == [x \in (DOMAIN d) \ {k} |-> d[x]]

EmptyDict == [x \in {} |-> None]

---------------------------------------------------------------------------
(* str.encode(charset) for the codecs the modelled renderers declare *)

EncodeChar(c, charset) ==
    IF charset = "utf-8"
    THEN IF c < 128 THEN [ok |-> TRUE, v |-> <<c>>]
         ELSE IF c < 2048
              THEN [ok |-> TRUE, v |-> <<192 + (c \div 64), 128 + (c % 64)>>]
              ELSE [ok |-> TRUE,
                    v |-> <<224 + (c \div 4096), 128 + ((c \div 64) % 64), 128 + (c % 64)>>]
    ELSE \* latin-1
         IF c < 256 THEN [ok |-> TRUE, v |-> <<c>>]
         ELSE [ok |-> FALSE, v |-> <<>>]

RECURSIVE Encode(_, _)
Encode(s, charset) ==
    IF s = <<>> THEN [ok |-> TRUE, v |-> <<>>]
    ELSE LET h == EncodeChar(Head(s), charset)
             r == Encode(Tail(s), charset)
         IN IF h.ok /\ r.ok THEN [ok |-> TRUE, v |-> h.v \o r.v]
            ELSE [ok |-> FALSE, v |-> <<>>]

---------------------------------------------------------------------------
(* Response.__init__ *)

\* classes for which isinstance(data, Serializer) holds
SerializerClasses == {"Serializer", "ModelSerializer"}

\* IsSerializer as an exact type test (type(data) is Serializer)
IsSerializerExact(data) == data.t = "Serializer"

IsSerializer(data) == data.t \in SerializerClasses

\* HttpResponse's status_code for the `status` argument (<<>> is None)
StatusCode(status) == IF status = <<>> THEN 200 ELSE status[1]

\* the Content-Type header the base constructor leaves on a new response
DefaultContentType == "text/html; charset=utf-8"

BaseInit(status) ==
    [status_code |-> StatusCode(status),
     headers |-> ("Content-Type" :> DefaultContentType),
     _closable_objects |-> <<>>]

RECURSIVE SetHeaders(_, _)
\* for name, value in headers.items(): self[name] = value
SetHeaders(hs, items) ==
    IF DOMAIN items = {} THEN hs
    ELSE LET name == CHOOSE n \in DOMAIN items : TRUE
         IN SetHeaders(Put(hs, name, items[name]), Del(items, name))

InitResponse(data, status, template_name, headers, exception, content_type) ==
    LET base == BaseInit(status)
        self == base @@ [data |-> data,
                         template_name |-> template_name,
                         exception |-> exception,
                         content_type |-> content_type]
    IN [self EXCEPT !.headers = SetHeaders(base.headers, headers)]

Construct(data, status, template_name, headers, exception, content_type) ==
    /\ pc = "start"
    /\ IF IsSerializer(data)
       THEN /\ pc' = "failed"
            /\ response' = response
       ELSE /\ pc' = "live"
            /\ response' = InitResponse(data, status, template_name, headers,
                                        exception, content_type)
    /\ init' = [taken |-> TRUE, data |-> data, status |-> status,
                 headers |-> headers, content_type |-> content_type,
                 exc |-> IF IsSerializer(data) THEN "AssertionError" ELSE ""]
    /\ reads' = <<>>
    /\ snapshot' = [taken |-> FALSE]
    /\ lookup' = lookup

---------------------------------------------------------------------------
(* Attributes attached after construction by the rest of the pipeline *)

HasAttr(self, name) == name \in DOMAIN self

\* response.accepted_renderer = renderer
SetAcceptedRenderer(renderer) ==
    /\ pc = "live"
    /\ response' = Put(response, "accepted_renderer", renderer)
    /\ reads' = <<>>
    /\ init' = [taken |-> FALSE]
    /\ snapshot' = [taken |-> FALSE]
    /\ UNCHANGED <<pc, lookup>>

\* response.accepted_media_type = media_type
SetAcceptedMediaType(media_type) ==
    /\ pc = "live"
    /\ response' = Put(response, "accepted_media_type", media_type)
    /\ reads' = <<>>
    /\ init' = [taken |-> FALSE]
    /\ snapshot' = [taken |-> FALSE]
    /\ UNCHANGED <<pc, lookup>>

\* response.renderer_context = context
SetRendererContext(context) ==
    /\ pc = "live"
    /\ response' = Put(response, "renderer_context", context)
    /\ reads' = <<>>
    /\ init' = [taken |-> FALSE]
    /\ snapshot' = [taken |-> FALSE]
    /\ UNCHANGED <<pc, lookup>>

---------------------------------------------------------------------------
(* Response.rendered_content *)

\* renderer.render(data, accepted_media_type, context) of the modelled
\* renderers: "bytes" serialises the data to UTF-8 bytes and nothing for
\* None, "str" returns the data as text, "none" returns None.
Render(renderer, data, accepted_media_type, context) ==
    CASE renderer.kind = "bytes" ->
            IF data.t = "NoneType" THEN Bytes(<<>>)
            ELSE Bytes(Encode(data.v, "utf-8").v)
      [] renderer.kind = "str" ->
            IF data.t = "NoneType" THEN Str(<<>>) ELSE Str(data.v)
      [] OTHER -> PyNone

\* ContentTypeFor with the charset tested for truth instead of against None
ContentTypeForTruthyCharset(content_type, media_type, charset) ==
    IF content_type = None /\ TruthyStr(charset)
    THEN media_type \o "; charset=" \o charset
    ELSE IF content_type = None THEN media_type
         ELSE content_type

\* the value line 62-67 computes for the Content-Type header
ContentTypeFor(content_type, media_type, charset) ==
    IF content_type = None /\ charset /= None
    THEN media_type \o "; charset=" \o charset
    ELSE IF content_type = None THEN media_type
         ELSE content_type

\* getattr(self, name, None) for an attribute that holds a plain string
GetAttr(self, name) == IF HasAttr(self, name) THEN self[name] ELSE None

\* CheckAttached without the assertion on accepted_media_type
CheckAttachedNoMediaType(self) ==
    IF ~HasAttr(self, "accepted_renderer")
    THEN ".accepted_renderer not set on Response"
    ELSE IF ~HasAttr(self, "renderer_context")
    THEN ".renderer_context not set on Response"
    ELSE ""

\* lines 55-57: the message of the first assertion that fails, "" if none does
CheckAttached(self) ==
    IF ~HasAttr(self, "accepted_renderer")
    THEN ".accepted_renderer not set on Response"
    ELSE IF ~TruthyStr(GetAttr(self, "accepted_media_type"))
    THEN ".accepted_media_type not set on Response"
    ELSE IF ~HasAttr(self, "renderer_context")
    THEN ".renderer_context not set on Response"
    ELSE ""

\* HeadersAfter that spares a header set from a declared content type
HeadersAfterKeepDeclared(self, ret) ==
    IF ~Truthy(ret) /\ self.content_type = None
    THEN Del(self.headers, "Content-Type")
    ELSE self.headers

\* HeadersAfter that removes the header for None alone (`if ret is None`)
HeadersAfterNoneOnly(self, ret) ==
    IF ret.t = "NoneType" THEN Del(self.headers, "Content-Type") ELSE self.headers

\* lines 78-79: the headers once the renderer has returned the non-text ret
HeadersAfter(self, ret) ==
    IF ~Truthy(ret) THEN Del(self.headers, "Content-Type") ELSE self.headers

\* EncodeText that encodes as UTF-8 whatever the renderer's charset
EncodeTextUtf8(ret, charset) == Encode(ret.v, "utf-8")

\* line 76: ret.encode(charset)
EncodeText(ret, charset) == Encode(ret.v, charset)

\* outcome of a read that raised
Raised(self, exc, msg, invoked, ct, raw) ==
    [exc |-> exc, msg |-> msg, ret |-> PyNone, invoked |-> invoked,
     ct |-> ct, raw |-> raw, self |-> self]

\* outcome of a read that returned ret
Returned(self, ret, ct, raw) ==
    [exc |-> "", msg |-> "", ret |-> ret, invoked |-> TRUE,
     ct |-> ct, raw |-> raw, self |-> self]

\* the body of the property: the outcome of one read on `self`, with the
\* response as the read leaves it (self), whether the renderer was invoked,
\* the Content-Type header in place when it was (ct) and what it returned (raw)
rendered_content(self) ==
    IF CheckAttached(self) /= ""
    THEN Raised(self, "AssertionError", CheckAttached(self), FALSE, None, PyNone)
    ELSE
    LET renderer == self.accepted_renderer
        accepted_media_type == GetAttr(self, "accepted_media_type")
        context == Put(self.renderer_context, "response", "self")
        media_type == renderer.media_type
        charset == renderer.charset
        content_type == ContentTypeFor(self.content_type, media_type, charset)
        self1 == [self EXCEPT !.renderer_context = context,
                              !.headers = Put(self.headers, "Content-Type", content_type)]
        ct == self1.headers["Content-Type"]
        ret == Render(renderer, self1.data, accepted_media_type, context)
    IN IF ret.t = "str"
       THEN IF ~TruthyStr(charset)
            THEN Raised(self1, "AssertionError",
                        "renderer returned unicode, and did not specify a charset value.",
                        TRUE, ct, ret)
            ELSE LET enc == EncodeText(ret, charset)
                 IN IF enc.ok THEN Returned(self1, Bytes(enc.v), ct, ret)
                    ELSE Raised(self1, "UnicodeEncodeError", "", TRUE, ct, ret)
       ELSE Returned([self1 EXCEPT !.headers = HeadersAfter(self1, ret)], ret, ct, ret)

\* ReadRenderedContent as a cached property: once a read has returned, later
\* reads return its value without running the body again
ReadRenderedContentCached ==
    /\ pc = "live"
    /\ Len(reads) < MaxReads
    /\ IF reads /= <<>> /\ reads[Len(reads)].exc = ""
       THEN /\ response' = response
            /\ reads' = Append(reads, [reads[Len(reads)] EXCEPT
                                         !.invoked = FALSE, !.before = response])
       ELSE LET r == rendered_content(response)
            IN /\ response' = r.self
               /\ reads' = Append(reads, [exc |-> r.exc, msg |-> r.msg, ret |-> r.ret,
                                          invoked |-> r.invoked, ct |-> r.ct, raw |-> r.raw,
                                          before |-> response, after |-> r.self])
    /\ init' = [taken |-> FALSE]
    /\ snapshot' = [taken |-> FALSE]
    /\ UNCHANGED <<pc, lookup>>

\* one read of response.rendered_content; the response before the read is
\* kept in the log entry as `before`
ReadRenderedContent ==
    /\ pc = "live"
    /\ Len(reads) < MaxReads
    /\ LET r == rendered_content(response)
       IN /\ response' = r.self
          /\ reads' = Append(reads, [exc |-> r.exc, msg |-> r.msg, ret |-> r.ret,
                                     invoked |-> r.invoked, ct |-> r.ct, raw |-> r.raw,
                                     before |-> response, after |-> r.self])
    /\ init' = [taken |-> FALSE]
    /\ snapshot' = [taken |-> FALSE]
    /\ UNCHANGED <<pc, lookup>>

---------------------------------------------------------------------------
(* Response.__getstate__ *)

\* attributes set on a response by the request cycle and the test client
\* that __getstate__ names
VolatileKeys == {"resolver_match", "client", "request", "json", "wsgi_request"}

\* setattr(response, key, <live object>)
SetVolatile(key) ==
    /\ pc = "live"
    /\ key \in VolatileKeys
    /\ response' = Put(response, key, "<object>")
    /\ reads' = <<>>
    /\ init' = [taken |-> FALSE]
    /\ snapshot' = [taken |-> FALSE]
    /\ UNCHANGED <<pc, lookup>>

\* response._closable_objects.append(<file>)
AddClosable ==
    /\ pc = "live"
    /\ Len(response._closable_objects) < MaxClosable
    /\ response' = [response EXCEPT !._closable_objects = Append(@, "<file>")]
    /\ reads' = <<>>
    /\ init' = [taken |-> FALSE]
    /\ snapshot' = [taken |-> FALSE]
    /\ UNCHANGED <<pc, lookup>>

\* super().__getstate__(): a copy of the instance dictionary
BaseGetState(self) == self

StrippedKeys == {"accepted_renderer", "renderer_context", "resolver_match",
                 "client", "request", "json", "wsgi_request"}

RECURSIVE DelKeys(_, _)
\* for key in keys: if key in state: del state[key]
DelKeys(state, keys) ==
    IF keys = {} THEN state
    ELSE LET key == CHOOSE k \in keys : TRUE
         IN DelKeys(IF key \in DOMAIN state THEN Del(state, key) ELSE state,
                    keys \ {key})

\* getstate that leaves the list of closable objects in the state
getstate_keep_closables(self) == DelKeys(BaseGetState(self), StrippedKeys)

getstate(self) ==
    LET state == DelKeys(BaseGetState(self), StrippedKeys)
    IN Put(state, "_closable_objects", <<>>)

\* state = response.__getstate__(); the response itself is left as it is
GetState ==
    /\ pc = "live"
    /\ snapshot' = [taken |-> TRUE, base |-> BaseGetState(response),
                    state |-> getstate(response)]
    /\ init' = [taken |-> FALSE]
    /\ UNCHANGED <<pc, response, reads, lookup>>

---------------------------------------------------------------------------
(* HttpResponseMessage *)

\* the message attributes of the class; the source's messages are Chinese
\* text (http_200 apart), written here as distinct ASCII strings
http_default == "the service may have a small problem"
http_200 == "success"
http_201 == "resource created"
http_400 == "cannot perform the operation"
http_401 == "login expired or abnormal"
http_403 == "no permission to access this resource"
http_404 == "the requested resource does not exist"
http_405 == "request method not supported"
http_429 == "requests too fast"
http_500 == "processing error"

\* the class attributes by name
ClassAttrs ==
    [http_default |-> http_default,
     http_200 |-> http_200, http_201 |-> http_201,
     http_400 |-> http_400, http_401 |-> http_401, http_403 |-> http_403,
     http_404 |-> http_404, http_405 |-> http_405, http_429 |-> http_429,
     http_500 |-> http_500]

HttpMin == 200
HttpMax == 600

\* 'http_%s' % code for an int code
AttrName(code) == "http_" \o ToString(code.v)

\* a code is [t |-> Python type, v |-> numeric value]: IntCode(404) is 404,
\* [t |-> "float", v |-> 404] is 404.0, [t |-> "str", v |-> 404] is "404"
IntCode(n) == [t |-> "int", v |-> n]

\* isinstance(code, int): bool is a subclass of int
IsInt(code) == code.t \in {"int", "bool"}

\* get_message with the upper end of the range included (code <= 600)
get_message_inclusive(code) ==
    IF ~(IsInt(code) /\ HttpMin <= code.v /\ code.v <= HttpMax)
    THEN [exc |-> "AssertionError", ret |-> None]
    ELSE [exc |-> "",
          ret |-> IF AttrName(code) \in DOMAIN ClassAttrs
                  THEN ClassAttrs[AttrName(code)]
                  ELSE ClassAttrs.http_default]

get_message(code) ==
    IF ~(IsInt(code) /\ HttpMin <= code.v /\ code.v < HttpMax)
    THEN [exc |-> "AssertionError", ret |-> None]
    ELSE [exc |-> "",
          ret |-> IF AttrName(code) \in DOMAIN ClassAttrs
                  THEN ClassAttrs[AttrName(code)]
                  ELSE ClassAttrs.http_default]

\* HttpResponseMessage()(code, *args, **kwargs)
call(code, args, kwargs) == get_message(code)

GetMessage(code) ==
    /\ lookup' = [via |-> "get_message", code |-> code, args |-> <<>>,
                  kwargs |-> EmptyDict, out |-> get_message(code)]
    /\ UNCHANGED <<pc, response, init, reads, snapshot>>

Call(code, args, kwargs) ==
    /\ lookup' = [via |-> "__call__", code |-> code, args |-> args,
                  kwargs |-> kwargs, out |-> call(code, args, kwargs)]
    /\ UNCHANGED <<pc, response, init, reads, snapshot>>

---------------------------------------------------------------------------
(* Inputs *)

Text == {<<>>, <<65, 233>>, <<8364>>}      \* "", "Aé", "€"

Payloads == {PyNone} \cup {Str(s) : s \in Text}

SerializerInstances == {[t |-> c, v |-> <<>>] : c \in SerializerClasses}

Statuses == {<<>>, <<404>>}

HeaderArgs == {EmptyDict,
               "X-Extra" :> "1",
               ("X-Extra" :> "1") @@ ("Content-Type" :> "text/csv")}

ContentTypes == {None, "", "text/plain"}

MediaTypes == {"application/json", "text/html"}

Charsets == {None, "", "utf-8", "latin-1"}

Renderers == [media_type : MediaTypes, charset : Charsets,
              kind : {"bytes", "str", "none"}]

AcceptedMediaTypes == {None, "", "application/json; indent=4"}

Contexts == {EmptyDict, "view" :> "<view>"}

Codes == {IntCode(n) : n \in ((HttpMin - CodeMargin) .. (HttpMax - 1 + CodeMargin)) \cup {999}}
         \cup {[t |-> "float", v |-> 200], [t |-> "str", v |-> 404],
               [t |-> "NoneType", v |-> 0], [t |-> "bool", v |-> 1]}

CacheRenderers == {[media_type |-> "application/json", charset |-> None, kind |-> "bytes"],
                   [media_type |-> "text/html", charset |-> "utf-8", kind |-> "str"]}

ExtraArgs == {<<>>, <<500>>}
ExtraKwargs == {EmptyDict, "mood" :> "ok"}

---------------------------------------------------------------------------
(* Specifications *)

Init ==
    /\ pc = "start"
    /\ response = EmptyDict
    /\ init = [taken |-> FALSE]
    /\ reads = <<>>
    /\ snapshot = [taken |-> FALSE]
    /\ lookup = [via |-> "", code |-> IntCode(0), args |-> <<>>, kwargs |-> EmptyDict,
                 out |-> [exc |-> "", ret |-> None]]

\* the life of a response up to and including its rendering
Next ==
    \/ \E data \in Payloads \cup SerializerInstances, status \in Statuses,
          headers \in HeaderArgs, content_type \in ContentTypes :
          Construct(data, status, None, headers, FALSE, content_type)
    \/ \E renderer \in Renderers : SetAcceptedRenderer(renderer)
    \/ \E media_type \in AcceptedMediaTypes : SetAcceptedMediaType(media_type)
    \/ \E context \in Contexts : SetRendererContext(context)
    \/ ReadRenderedContent

Spec == Init /\ [][Next]_vars

\* a response from construction to the cache: the attributes of the request
\* cycle and of the test client, closable objects, rendering, __getstate__
NextCache ==
    \/ \E data \in {PyNone, Str(<<65, 233>>)}, status \in Statuses :
          Construct(data, status, None, EmptyDict, FALSE, None)
    \/ \E renderer \in CacheRenderers : SetAcceptedRenderer(renderer)
    \/ SetAcceptedMediaType("application/json")
    \/ SetRendererContext("view" :> "<view>")
    \/ \E key \in VolatileKeys : SetVolatile(key)
    \/ AddClosable
    \/ ReadRenderedContent
    \/ GetState

SpecCache == Init /\ [][NextCache]_vars

\* the status message lookups
NextLookup ==
    \/ \E code \in Codes : GetMessage(code)
    \/ \E code \in Codes, args \in ExtraArgs, kwargs \in ExtraKwargs :
          Call(code, args, kwargs)

SpecLookup == Init /\ [][NextLookup]_vars

---------------------------------------------------------------------------
(* Properties *)

\* the three attributes rendering needs are set on response b
Attached(b) ==
    /\ HasAttr(b, "accepted_renderer")
    /\ HasAttr(b, "accepted_media_type") /\ TruthyStr(b.accepted_media_type)
    /\ HasAttr(b, "renderer_context")

\* the attributes among the three that are not set on response b
Missing(b) ==
    {k \in {"accepted_renderer", "accepted_media_type", "renderer_context"} :
        ~HasAttr(b, k)}

HasContentType(self) == "Content-Type" \in DOMAIN self.headers

\* the renderer returned an empty or falsy value that is not text
EmptyNonText(raw) == raw.t /= "str" /\ (raw.t = "NoneType" \/ raw.v = <<>>)

\* C1: on a read with renderer, media type and context attached the renderer
\* is invoked, and the Content-Type header in place at that moment is the
\* declared content type if one was given, else "<media_type>; charset=<charset>"
\* if the renderer's charset is not None, else the renderer's media type;
\* application/json with utf-8 and no declared type gives
\* "application/json; charset=utf-8".
C1_ContentTypeAtRender ==
    \A i \in DOMAIN reads :
        LET b == reads[i].before
        IN Attached(b) =>
            LET r == b.accepted_renderer
            IN /\ reads[i].invoked
               /\ reads[i].ct =
                    IF b.content_type /= None THEN b.content_type
                    ELSE IF r.charset /= None
                         THEN r.media_type \o "; charset=" \o r.charset
                         ELSE r.media_type
               /\ (/\ b.content_type = None
                   /\ r.media_type = "application/json"
                   /\ r.charset = "utf-8")
                  => reads[i].ct = "application/json; charset=utf-8"

C1_Witness ==
    \E i \in DOMAIN reads :
        /\ Attached(reads[i].before)
        /\ reads[i].before.content_type = None
        /\ reads[i].before.accepted_renderer.media_type = "application/json"
        /\ reads[i].before.accepted_renderer.charset = "utf-8"
        /\ reads[i].ct = "application/json; charset=utf-8"

\* C2: a read on a response where exactly one of accepted_renderer,
\* accepted_media_type, renderer_context is not set raises AssertionError
\* without invoking the renderer and leaves the response, its headers and
\* its context mapping as they were.
C2_MissingFieldRaises ==
    \A i \in DOMAIN reads :
        LET b == reads[i].before
        IN (/\ Cardinality(Missing(b)) = 1
            /\ HasAttr(b, "accepted_media_type") => TruthyStr(b.accepted_media_type))
           => /\ reads[i].exc = "AssertionError"
              /\ ~reads[i].invoked
              /\ reads[i].after.headers = b.headers
              /\ HasAttr(b, "renderer_context")
                    => reads[i].after.renderer_context = b.renderer_context
              /\ reads[i].after = b

C2_Witness ==
    \E i \in DOMAIN reads :
        /\ Missing(reads[i].before) = {"accepted_media_type"}
        /\ reads[i].exc = "AssertionError"
        /\ "response" \notin DOMAIN reads[i].after.renderer_context

\* C3 as stated: with a declared content type and a renderer attached, the
\* Content-Type header after the read equals the declared content type.
C3_DeclaredAlwaysKept ==
    \A i \in DOMAIN reads :
        LET b == reads[i].before
        IN (Attached(b) /\ b.content_type /= None)
           => /\ HasContentType(reads[i].after)
              /\ reads[i].after.headers["Content-Type"] = b.content_type

\* C3 amended: with a declared content type and a renderer attached, the
\* Content-Type header after the read equals the declared content type unless
\* the renderer returned an empty non-text value, and then it is absent.
C3_DeclaredKeptUnlessEmpty ==
    \A i \in DOMAIN reads :
        LET b == reads[i].before
        IN (Attached(b) /\ b.content_type /= None)
           => IF EmptyNonText(reads[i].raw)
              THEN ~HasContentType(reads[i].after)
              ELSE /\ HasContentType(reads[i].after)
                   /\ reads[i].after.headers["Content-Type"] = b.content_type

C3_Witness ==
    \E i \in DOMAIN reads :
        /\ Attached(reads[i].before)
        /\ reads[i].before.content_type = "text/plain"
        /\ reads[i].before.accepted_renderer.media_type = "application/json"
        /\ reads[i].before.accepted_renderer.charset = "utf-8"
        /\ reads[i].exc = ""
        /\ reads[i].after.headers["Content-Type"] = "text/plain"

\* C4: when the renderer returns empty bytes or another falsy non-text
\* value, the read returns that value and the response has no Content-Type
\* header afterwards, declared content type or header override or not.
C4_EmptyResultDropsHeader ==
    \A i \in DOMAIN reads :
        (reads[i].invoked /\ EmptyNonText(reads[i].raw))
        => /\ reads[i].exc = ""
           /\ reads[i].ret = reads[i].raw
           /\ ~HasContentType(reads[i].after)

C4_Witness ==
    \E i \in DOMAIN reads :
        /\ reads[i].invoked
        /\ reads[i].raw = Bytes(<<>>)
        /\ reads[i].before.content_type = "text/plain"
        /\ reads[i].before.headers["Content-Type"] = "text/csv"
        /\ ~HasContentType(reads[i].after)

\* C5: when the renderer returns text, the outcome of the read is that of
\* text.encode(charset) with the renderer's charset if the charset is
\* non-empty (the bytes, or the codec's error for text the charset cannot
\* encode), and AssertionError with no content if the charset is None or "".
C5_TextIsEncodedWithCharset ==
    \A i \in DOMAIN reads :
        (reads[i].invoked /\ reads[i].raw.t = "str")
        => LET charset == reads[i].before.accepted_renderer.charset
               text == reads[i].raw.v
           IN IF charset = None \/ charset = ""
              THEN reads[i].exc = "AssertionError" /\ reads[i].ret = PyNone
              ELSE /\ Encode(text, charset).ok
                      => /\ reads[i].exc = ""
                         /\ reads[i].ret = Bytes(Encode(text, charset).v)
                   /\ ~Encode(text, charset).ok
                      => reads[i].exc = "UnicodeEncodeError"
                   /\ (text = <<65, 233>> /\ charset = "latin-1")
                      => reads[i].ret = Bytes(<<65, 233>>)
                   /\ (text = <<65, 233>> /\ charset = "utf-8")
                      => reads[i].ret = Bytes(<<65, 195, 169>>)
                   /\ (text = <<8364>> /\ charset = "utf-8")
                      => reads[i].ret = Bytes(<<226, 130, 172>>)

C5_Witness ==
    \E i \in DOMAIN reads :
        /\ reads[i].raw = Str(<<65, 233>>)
        /\ reads[i].before.accepted_renderer.charset = "latin-1"
        /\ reads[i].ret = Bytes(<<65, 233>>)

C5_WitnessNoCharset ==
    \E i \in DOMAIN reads :
        /\ reads[i].raw = Str(<<65, 233>>)
        /\ reads[i].before.accepted_renderer.charset = None
        /\ reads[i].exc = "AssertionError"

\* C6: constructing with a Serializer instance raises AssertionError; with
\* any other payload construction succeeds, response.data is the payload and
\* every entry of the headers argument is a header with the given value.
C6_Construct ==
    init.taken =>
        IF init.data.t \in {"Serializer", "ModelSerializer"}
        THEN init.exc = "AssertionError" /\ pc = "failed"
        ELSE /\ init.exc = "" /\ pc = "live"
             /\ response.data = init.data
             /\ \A name \in DOMAIN init.headers :
                   /\ name \in DOMAIN response.headers
                   /\ response.headers[name] = init.headers[name]

C6_Witness ==
    /\ init.taken
    /\ init.exc = ""
    /\ init.data = Str(<<65, 233>>)
    /\ "Content-Type" \in DOMAIN init.headers
    /\ response.headers["Content-Type"] = "text/csv"

C6_WitnessSerializer ==
    init.taken /\ init.data.t = "ModelSerializer" /\ init.exc = "AssertionError"

\* the message registered for an integer code, the default for the others
Registered(n) ==
    CASE n = 200 -> http_200 [] n = 201 -> http_201
      [] n = 400 -> http_400 [] n = 401 -> http_401 [] n = 403 -> http_403
      [] n = 404 -> http_404 [] n = 405 -> http_405 [] n = 429 -> http_429
      [] n = 500 -> http_500
      [] OTHER -> http_default

C7_WitnessOutOfRange ==
    /\ lookup.via = "get_message"
    /\ lookup.code = IntCode(600)
    /\ lookup.out.exc = "AssertionError"

\* C8: the state __getstate__ returns has none of accepted_renderer,
\* renderer_context, resolver_match, client, request, json, wsgi_request,
\* its _closable_objects is empty, and every other entry of the base state
\* is kept with its value.
C8_Snapshot ==
    snapshot.taken =>
        /\ DOMAIN snapshot.state \cap
             {"accepted_renderer", "renderer_context", "resolver_match",
              "client", "request", "json", "wsgi_request"} = {}
        /\ snapshot.state._closable_objects = <<>>
        /\ \A k \in DOMAIN snapshot.base \
                  {"accepted_renderer", "renderer_context", "resolver_match",
                   "client", "request", "json", "wsgi_request", "_closable_objects"} :
              /\ k \in DOMAIN snapshot.state
              /\ snapshot.state[k] = snapshot.base[k]
        /\ {"data", "status_code"} \subseteq DOMAIN snapshot.state

C8_Witness ==
    /\ snapshot.taken
    /\ {"accepted_renderer", "renderer_context", "resolver_match",
        "client", "request", "json", "wsgi_request"} \subseteq DOMAIN snapshot.base
    /\ Len(snapshot.base._closable_objects) = MaxClosable
    /\ "response" \in DOMAIN snapshot.base.renderer_context
    /\ snapshot.state.status_code = 404

\* the content a read returned is empty (no body)
EmptyContent(ret) == ret.t = "NoneType" \/ ret.v = <<>>

\* C9 as stated: after a read that returns, the Content-Type header is
\* absent exactly if the returned content is empty.
C9_AbsentIffEmptyContent ==
    \A i \in DOMAIN reads :
        reads[i].exc = ""
        => (~HasContentType(reads[i].after) <=> EmptyContent(reads[i].ret))

\* C9 amended: after a read that returns, the Content-Type header is absent
\* exactly if the renderer returned an empty non-text value; so an absent
\* header means empty content, while empty text encoded to empty bytes keeps
\* the header.
C9_AbsentIffEmptyNonText ==
    \A i \in DOMAIN reads :
        reads[i].exc = ""
        => /\ ~HasContentType(reads[i].after) <=> EmptyNonText(reads[i].raw)
           /\ ~HasContentType(reads[i].after) => EmptyContent(reads[i].ret)
           /\ (reads[i].raw.t = "str" /\ reads[i].ret = Bytes(<<>>))
                 => HasContentType(reads[i].after)

C9_Witness ==
    \E i \in DOMAIN reads :
        /\ reads[i].exc = ""
        /\ reads[i].raw = Str(<<>>)
        /\ reads[i].ret = Bytes(<<>>)
        /\ HasContentType(reads[i].after)

C9_WitnessAbsent ==
    \E i \in DOMAIN reads :
        /\ reads[i].exc = ""
        /\ reads[i].raw = Bytes(<<>>)
        /\ ~HasContentType(reads[i].after)

\* C10: while renderer, media type and context stay attached, every later
\* read invokes the renderer again with the same Content-Type header in
\* place, has the outcome of the first read, and leaves the headers and the
\* context (with its self-reference) as the first read left them.
C10_Repeatable ==
    \A i \in DOMAIN reads :
        (i > 1 /\ Attached(reads[1].before))
        => /\ reads[i].invoked
           /\ reads[i].ct = reads[1].ct
           /\ reads[i].exc = reads[1].exc
           /\ reads[i].ret = reads[1].ret
           /\ reads[i].after.headers = reads[1].after.headers
           /\ reads[i].after.renderer_context = reads[1].after.renderer_context
           /\ reads[i].after.renderer_context["response"] = "self"

C10_Witness ==
    /\ Len(reads) >= 3
    /\ Attached(reads[1].before)
    /\ reads[1].exc = ""
    /\ ~HasContentType(reads[1].after)
    /\ reads[3].invoked
    /\ reads[3].ct = "text/plain"
    /\ ~HasContentType(reads[3].after)

====
